---- MODULE Spec2Model ----
(***************************************************************************)
(* Order processing of sample_design_violations_and_solution:              *)
(*   - sample_design_violations.py: the monolithic singleton               *)
(*     OrderProcessor with the global CONFIG;                              *)
(*   - refactored_design.py: the coordinator OrderProcessor with its       *)
(*     strategy and service collaborators.                                 *)
(* Money is held in units of 1/Scale so that the factors 0.98, 1.02, 1.39  *)
(* and (1 - rate) stay exact; float rounding is not modelled.              *)
(* refactored_design.py annotates process with the name Order, which the   *)
(* file neither defines nor imports; the model takes the module as loaded  *)
(* and an order as an object with the attributes process reads.            *)
(***************************************************************************)
EXTENDS Integers, Sequences, FiniteSets, TLC

VARIABLES module, orders, CONFIG, instance, refs, processor, analytics_logs, frame, world, budget

vars == <<module, orders, CONFIG, instance, refs, processor, analytics_logs, frame, world, budget>>

(* ---------------- bounds ---------------- *)
MaxOps == 3
MaxItems == 2

(* ---------------- values ---------------- *)
Scale == 100 * 100
NoTotal == 0 - 1
None == "None"

Orders == {"o1", "o2"}
Countries == {"CH", "US"}
PaymentTypes == {"paypal", "credit-card", "promo", "crypto"}
Customers == {"c1", "c2"}
PromoRates == {10}

ItemKinds == {[price |-> 10, quantity |-> 2], [price |-> 600, quantity |-> 2], [price |-> 10]}

RECURSIVE SeqsUpTo(_, _)
SeqsUpTo(S, n) ==
    IF n = 0 THEN {<<>>}
    ELSE LET shorter == SeqsUpTo(S, n - 1)
         IN  shorter \cup {Append(s, x) : s \in {t \in shorter : Len(t) = n - 1}, x \in S}

ItemLists == SeqsUpTo(ItemKinds, MaxItems)

SpecExampleItems == <<[price |-> 10, quantity |-> 2]>>

(* Quantity that forgets the quantity of the item *)
QuantityIgnored(it) == 1

(* it.get("quantity", 1) *)
Quantity(it) == IF "quantity" \in DOMAIN it THEN it.quantity ELSE 1

RECURSIVE SumItems(_)
SumItems(items) ==
    IF items = <<>> THEN 0
    ELSE SumItems(SubSeq(items, 1, Len(items) - 1))
         + items[Len(items)].price * Quantity(items[Len(items)])

(* ---------------- sample_design_violations.py ---------------- *)
SupportedCountries == {"CH", "DE", "AT", "EU", "Worldwide"}

TariffThreshold == 1000

(* CONFIG["discount"] as the file sets it, in percent *)
InitialDiscount == 80

(* OrderProcessor._calc_total *)
CalcTotal(items) ==
    LET subtotal == SumItems(items)
    IN  IF subtotal > TariffThreshold THEN subtotal * 139 * (Scale \div 100)
        ELSE subtotal * Scale

(* OrderProcessor._apply_discounts; CONFIG["discount"] is held in percent.   *)
(* Every total is a multiple of 100 units, so dividing first loses nothing. *)
ApplyDiscounts(payment_type, discount, total) ==
    IF payment_type = "paypal" THEN (total \div 100) * 98
    ELSE IF payment_type = "credit-card" THEN (total \div 100) * 102
    ELSE IF payment_type = "promo" THEN (total \div 100) * (100 - discount)
    ELSE total

NoInstance == [made |-> FALSE, id |-> 0, customer_id |-> None, payment_type |-> None,
               total_processed |-> 0, logs |-> <<>>]

(* The call of process in progress, or the one that ended last if the      *)
(* client has done nothing since: its position pc, its locals raw and      *)
(* total, its outcome (result or error), and for the properties the status *)
(* of the order at entry, the amount handed to the charge, the steps       *)
(* completed and the length of world at entry.                             *)
IdleFrame == [design |-> None, order |-> None, pc |-> "idle", idx |-> 0, status0 |-> None,
              raw |-> NoTotal, total |-> NoTotal, result |-> NoTotal, error |-> None,
              charged |-> NoTotal, steps |-> <<>>, mark |-> 0]

Idle == frame.pc \in {"idle", "returned", "raised"}

LogEntry(msg, total) == [msg |-> msg, total |-> total]

Effect(kind, o, amount) == [kind |-> kind, order |-> o, amount |-> amount]

Raise(fr, err) == [fr EXCEPT !.pc = "raised", !.error = err]

Done(fr, step, next) == [fr EXCEPT !.pc = next, !.steps = Append(@, step)]

(* NewObject that creates an object on every construction *)
NewObjectAlways(inst, held) == Cardinality(held) + 1

(* OrderProcessor.__new__: the identity of the object a construction returns, *)
(* a new one only while _instance is None                                      *)
NewObject(inst, held) == IF ~inst.made THEN Cardinality(held) + 1 ELSE inst.id

(* DiscountAfterNew that leaves CONFIG alone *)
DiscountAfterNewKept(discount, payment_type) == discount

(* __init__, line 37: CONFIG["discount"] after a construction *)
DiscountAfterNew(discount, payment_type) == IF payment_type = "promo" THEN 60 ELSE discount

(* OrderProcessor.__new__ and __init__; instance is the state of the object *)
(* _instance refers to, refs the objects the constructions have returned    *)
VNew(customer_id, payment_type) ==
    /\ module = "sample_design_violations"
    /\ Idle
    /\ budget > 0
    /\ budget' = budget - 1
    /\ instance' = [made |-> TRUE, id |-> NewObject(instance, refs),
                    customer_id |-> customer_id,
                    payment_type |-> payment_type, total_processed |-> 0, logs |-> <<>>]
    /\ refs' = refs \cup {NewObject(instance, refs)}
    /\ CONFIG' = [CONFIG EXCEPT !.discount = DiscountAfterNew(@, payment_type)]
    /\ frame' = IdleFrame
    /\ UNCHANGED <<module, orders, processor, analytics_logs, world>>

(* process, lines 41-44: the status assignment, then the country check *)
VBegin(o) ==
    /\ Idle
    /\ instance.made
    /\ budget > 0
    /\ budget' = budget - 1
    /\ orders' = [orders EXCEPT ![o].status = "processing"]
    /\ LET fr == [IdleFrame EXCEPT !.design = "v", !.order = o,
                                   !.status0 = orders[o].status, !.pc = "calc",
                                   !.mark = Len(world)]
       IN  frame' = IF orders[o].country \notin SupportedCountries
                    THEN Raise(fr, "ValueError")
                    ELSE fr
    /\ UNCHANGED <<module, refs, CONFIG, instance, processor, analytics_logs, world>>

InV(pc) == frame.design = "v" /\ frame.pc = pc

(* process, line 47 *)
VCalcTotal ==
    /\ InV("calc")
    /\ frame' = [frame EXCEPT !.pc = "discount",
                              !.raw = CalcTotal(orders[frame.order].items)]
    /\ UNCHANGED <<module, refs, orders, CONFIG, instance, processor, analytics_logs, world, budget>>

(* process, line 48 *)
VApplyDiscounts ==
    /\ InV("discount")
    /\ frame' = [Done(frame, "discount", "charge") EXCEPT
                    !.total = ApplyDiscounts(instance.payment_type, CONFIG.discount, frame.raw)]
    /\ UNCHANGED <<module, refs, orders, CONFIG, instance, processor, analytics_logs, world, budget>>

(* VChargePayment that charges the subtotal instead of the discounted total *)
VChargePaymentRaw ==
    /\ InV("charge")
    /\ IF instance.payment_type \in {"paypal", "promo", "credit-card"}
       THEN /\ instance' = [instance EXCEPT
                                !.logs = Append(@, LogEntry("Charged via PayPal", frame.raw))]
            /\ frame' = [Done(frame, "charge", "save") EXCEPT !.charged = frame.raw]
       ELSE /\ frame' = Raise(frame, "RuntimeError")
            /\ UNCHANGED instance
    /\ UNCHANGED <<module, refs, orders, CONFIG, processor, analytics_logs, world, budget>>

(* VChargePayment that takes every payment type it does not know for a card *)
VChargePaymentElseCard ==
    /\ InV("charge")
    /\ IF instance.payment_type \in {"paypal", "promo"}
       THEN /\ instance' = [instance EXCEPT
                                !.logs = Append(@, LogEntry("Charged via PayPal", frame.total))]
            /\ frame' = [Done(frame, "charge", "save") EXCEPT !.charged = frame.total]
       ELSE /\ instance' = [instance EXCEPT
                                !.logs = Append(@, LogEntry("Charged via CC", frame.total))]
            /\ frame' = [Done(frame, "charge", "save") EXCEPT !.charged = frame.total]
    /\ UNCHANGED <<module, refs, orders, CONFIG, processor, analytics_logs, world, budget>>

(* process, line 49: _charge_payment *)
VChargePayment ==
    /\ InV("charge")
    /\ IF instance.payment_type \in {"paypal", "promo"}
       THEN /\ instance' = [instance EXCEPT
                                !.logs = Append(@, LogEntry("Charged via PayPal", frame.total))]
            /\ frame' = [Done(frame, "charge", "save") EXCEPT !.charged = frame.total]
       ELSE IF instance.payment_type = "credit-card"
       THEN /\ instance' = [instance EXCEPT
                                !.logs = Append(@, LogEntry("Charged via CC", frame.total))]
            /\ frame' = [Done(frame, "charge", "save") EXCEPT !.charged = frame.total]
       ELSE /\ frame' = Raise(frame, "RuntimeError")
            /\ UNCHANGED instance
    /\ UNCHANGED <<module, refs, orders, CONFIG, processor, analytics_logs, world, budget>>

(* VSaveToDb that puts the status back when the insert fails *)
VSaveToDbRollsBack ==
    /\ InV("save")
    /\ \E ok \in BOOLEAN :
         IF ok
         THEN /\ world' = Append(world, Effect("db", frame.order, frame.total))
              /\ frame' = Done(frame, "save", "notify")
              /\ UNCHANGED orders
         ELSE /\ frame' = Raise(frame, "sqlite3.Error")
              /\ orders' = [orders EXCEPT ![frame.order].status = frame.status0]
              /\ UNCHANGED world
    /\ UNCHANGED <<module, refs, CONFIG, instance, processor, analytics_logs, budget>>

(* VSaveToDb after which process goes on to the analytics call, the email left out *)
VSaveToDbSkipsEmail ==
    /\ InV("save")
    /\ \E ok \in BOOLEAN :
         IF ok
         THEN /\ world' = Append(world, Effect("db", frame.order, frame.total))
              /\ frame' = Done(frame, "save", "track")
         ELSE /\ frame' = Raise(frame, "sqlite3.Error")
              /\ UNCHANGED world
    /\ UNCHANGED <<module, refs, orders, CONFIG, instance, processor, analytics_logs, budget>>

(* process, line 50: _save_to_db; sqlite3 may raise *)
VSaveToDb ==
    /\ InV("save")
    /\ \E ok \in BOOLEAN :
         IF ok
         THEN /\ world' = Append(world, Effect("db", frame.order, frame.total))
              /\ frame' = Done(frame, "save", "notify")
         ELSE /\ frame' = Raise(frame, "sqlite3.Error")
              /\ UNCHANGED world
    /\ UNCHANGED <<module, refs, orders, CONFIG, instance, processor, analytics_logs, budget>>

(* process, line 51: _email_customer; smtplib may raise *)
VEmailCustomer ==
    /\ InV("notify")
    /\ \E ok \in BOOLEAN :
         IF ok
         THEN /\ world' = Append(world, Effect("mail", frame.order, frame.total))
              /\ instance' = [instance EXCEPT
                                !.logs = Append(@, LogEntry("Email sent to customer", NoTotal))]
              /\ frame' = Done(frame, "notify", "track")
         ELSE /\ frame' = Raise(frame, "smtplib.SMTPException")
              /\ UNCHANGED <<world, instance>>
    /\ UNCHANGED <<module, refs, orders, CONFIG, processor, analytics_logs, budget>>

(* PostAnalyticsLog that logs "posted" only when the post went through *)
PostAnalyticsLogElse(posted) ==
    IF posted THEN <<LogEntry("Analytics posted", NoTotal)>>
    ELSE <<LogEntry("Failed to post analytics", NoTotal)>>

(* _post_analytics, lines 112-118: the log entries of one call *)
PostAnalyticsLog(posted) ==
    (IF posted THEN <<>> ELSE <<LogEntry("Failed to post analytics", NoTotal)>>)
    \o <<LogEntry("Analytics posted", NoTotal)>>

(* process, line 52: _post_analytics; requests.post may raise *)
VPostAnalytics ==
    /\ InV("track")
    /\ \E posted \in BOOLEAN :
         /\ world' = IF posted THEN Append(world, Effect("post", frame.order, NoTotal))
                     ELSE world
         /\ instance' = [instance EXCEPT !.logs = @ \o PostAnalyticsLog(posted)]
         /\ frame' = Done(frame, IF posted THEN "track" ELSE "track-failed", "backup")
    /\ UNCHANGED <<module, refs, orders, CONFIG, processor, analytics_logs, budget>>

(* VBackupCsv that marks the order done even when the backup fails *)
VBackupCsvMarksDone ==
    /\ InV("backup")
    /\ \E ok \in BOOLEAN :
         IF ok
         THEN /\ world' = Append(world, Effect("csv", frame.order, NoTotal))
              /\ instance' = [instance EXCEPT
                                !.logs = Append(@, LogEntry("Backup CSV updated", NoTotal))]
              /\ frame' = Done(frame, "backup", "finish")
              /\ UNCHANGED orders
         ELSE /\ frame' = Raise(frame, "OSError")
              /\ orders' = [orders EXCEPT ![frame.order].status = "done"]
              /\ UNCHANGED <<world, instance>>
    /\ UNCHANGED <<module, refs, CONFIG, processor, analytics_logs, budget>>

(* process, line 53: _backup_csv; open/write may raise *)
VBackupCsv ==
    /\ InV("backup")
    /\ \E ok \in BOOLEAN :
         IF ok
         THEN /\ world' = Append(world, Effect("csv", frame.order, NoTotal))
              /\ instance' = [instance EXCEPT
                                !.logs = Append(@, LogEntry("Backup CSV updated", NoTotal))]
              /\ frame' = Done(frame, "backup", "finish")
         ELSE /\ frame' = Raise(frame, "OSError")
              /\ UNCHANGED <<world, instance>>
    /\ UNCHANGED <<module, refs, orders, CONFIG, processor, analytics_logs, budget>>

(* VFinish that returns without the status assignment of line 56 *)
VFinishLeavesStatus ==
    /\ InV("finish")
    /\ instance' = [instance EXCEPT !.total_processed = @ + 1]
    /\ frame' = [frame EXCEPT !.pc = "returned", !.result = frame.total]
    /\ UNCHANGED <<module, refs, orders, CONFIG, processor, analytics_logs, world, budget>>

(* VFinish that also stores the total on the order *)
VFinishStoresTotal ==
    /\ InV("finish")
    /\ instance' = [instance EXCEPT !.total_processed = @ + 1]
    /\ orders' = [orders EXCEPT ![frame.order] =
                     [status |-> "done", email |-> @.email, country |-> @.country,
                      items |-> @.items, total |-> frame.total]]
    /\ frame' = [frame EXCEPT !.pc = "returned", !.result = frame.total]
    /\ UNCHANGED <<module, refs, CONFIG, processor, analytics_logs, world, budget>>

(* process, lines 54-57 *)
VFinish ==
    /\ InV("finish")
    /\ instance' = [instance EXCEPT !.total_processed = @ + 1]
    /\ orders' = [orders EXCEPT ![frame.order].status = "done"]
    /\ frame' = [frame EXCEPT !.pc = "returned", !.result = frame.total]
    /\ UNCHANGED <<module, refs, CONFIG, processor, analytics_logs, world, budget>>

(* ---------------- refactored_design.py ---------------- *)
DiscountPolicies == {"NoDiscount", "PaypalDiscount", "CreditCardFee", "PromoDiscount"}
PaymentGateways == {"PaypalGateway", "CreditCardGateway"}

(* the methods each concrete class defines, inherited abstract ones included *)
Defines(cls) ==
    IF cls \in DiscountPolicies THEN {"_apply_discounts"}
    ELSE IF cls \in PaymentGateways THEN {"_charge_payment"}
    ELSE IF cls = "SqliteOrderRepository" THEN {"_save_to_db"}
    ELSE IF cls = "EmailNotification" THEN {"_email_customer"}
    ELSE IF cls = "HttpAnalytics" THEN {"track"}
    ELSE IF cls = "CsvBackup" THEN {"backup"}
    ELSE {}

(* NoDiscount, PaypalDiscount, CreditCardFee, PromoDiscount: _apply_discounts; *)
(* rate is held in percent                                                     *)
PolicyApplyDiscounts(cls, rate, total) ==
    IF cls = "NoDiscount" THEN total
    ELSE IF cls = "PaypalDiscount" THEN (total \div 100) * 98
    ELSE IF cls = "CreditCardFee" THEN (total \div 100) * 102
    ELSE (total \div 100) * (100 - rate)

NoProcessor == [made |-> FALSE, discount_policy |-> None, rate |-> 0, payment_gateway |-> None,
                repo |-> None, notifier |-> None, analytics |-> None, backup |-> None]

(* the attribute and the method name of each collaborator call of process, lines 145-151 *)
RCalls == <<[attr |-> "discount_policy", name |-> "apply"],
            [attr |-> "payment_gateway", name |-> "charge"],
            [attr |-> "repo", name |-> "save"],
            [attr |-> "notifier", name |-> "notify"],
            [attr |-> "analytics", name |-> "track"],
            [attr |-> "backup", name |-> "backup"]>>

(* process, line 144 *)
RawTotal(items) == SumItems(items) * Scale

(* HttpAnalytics.track, lines 105-118: the log entries of one call *)
TrackLog(o, posted) ==
    (IF posted THEN <<>> ELSE <<[msg |-> "Failed to post analytics for order", order |-> o]>>)
    \o <<[msg |-> "Analytics posted for order", order |-> o]>>

(* TrackEffect that assigns a new list to _logs instead of appending to it *)
TrackEffectAssigns(o, posted) ==
    /\ world' = IF posted THEN Append(world, Effect("post", o, NoTotal)) ELSE world
    /\ analytics_logs' = TrackLog(o, posted)

(* HttpAnalytics.track; requests.post may raise *)
TrackEffect(o, posted) ==
    /\ world' = IF posted THEN Append(world, Effect("post", o, NoTotal)) ELSE world
    /\ analytics_logs' = analytics_logs \o TrackLog(o, posted)

(* OrderProcessor.__init__ over the classes the file provides *)
RNew(policy, rate, gateway) ==
    /\ module = "refactored_design"
    /\ Idle
    /\ ~processor.made
    /\ processor' = [made |-> TRUE, discount_policy |-> policy,
                     rate |-> IF policy = "PromoDiscount" THEN rate ELSE 0,
                     payment_gateway |-> gateway, repo |-> "SqliteOrderRepository",
                     notifier |-> "EmailNotification", analytics |-> "HttpAnalytics",
                     backup |-> "CsvBackup"]
    /\ frame' = IdleFrame
    /\ UNCHANGED <<module, refs, orders, CONFIG, instance, analytics_logs, world, budget>>

(* process, line 141 *)
RBegin(o) ==
    /\ Idle
    /\ processor.made
    /\ budget > 0
    /\ budget' = budget - 1
    /\ orders' = [orders EXCEPT ![o].status = "processing"]
    /\ frame' = [IdleFrame EXCEPT !.design = "r", !.order = o,
                                  !.status0 = orders[o].status, !.pc = "sum",
                                  !.mark = Len(world)]
    /\ UNCHANGED <<module, refs, CONFIG, instance, processor, analytics_logs, world>>

(* the body of a method that process calls by a name its target defines *)
RInvoke(name) ==
    IF name = "track"
    THEN /\ \E posted \in BOOLEAN :
              /\ TrackEffect(frame.order, posted)
              /\ frame' = [Done(frame, IF posted THEN "track" ELSE "track-failed", "call")
                              EXCEPT !.idx = @ + 1]
         /\ UNCHANGED <<module, refs, orders, CONFIG, instance, processor, budget>>
    ELSE /\ name = "backup"
         /\ frame' = Done(frame, "backup", "finish")
         /\ UNCHANGED <<module, refs, orders, CONFIG, instance, processor, analytics_logs, world, budget>>

(* process, lines 144-154, one statement at a time; a call by a name the *)
(* target object does not define raises AttributeError                   *)
RStep ==
    /\ frame.design = "r"
    /\ frame.pc \in {"sum", "call", "finish"}
    /\ IF frame.pc = "sum"
       THEN /\ frame' = [frame EXCEPT !.pc = "call", !.idx = 1,
                                      !.raw = RawTotal(orders[frame.order].items)]
            /\ UNCHANGED <<module, refs, orders, CONFIG, instance, processor, analytics_logs, world, budget>>
       ELSE IF frame.pc = "call"
       THEN LET c == RCalls[frame.idx]
            IN  IF c.name \notin Defines(processor[c.attr])
                THEN /\ frame' = Raise(frame, "AttributeError")
                     /\ UNCHANGED <<module, refs, orders, CONFIG, instance, processor, analytics_logs,
                                    world, budget>>
                ELSE RInvoke(c.name)
       ELSE /\ orders' = [orders EXCEPT ![frame.order].status = "done"]
            /\ frame' = [frame EXCEPT !.pc = "returned", !.result = frame.total]
            /\ UNCHANGED <<module, refs, CONFIG, instance, processor, analytics_logs, world, budget>>

(* HttpAnalytics.track called on the analytics object itself *)
Track(o) ==
    /\ module = "refactored_design"
    /\ Idle
    /\ budget > 0
    /\ budget' = budget - 1
    /\ \E posted \in BOOLEAN : TrackEffect(o, posted)
    /\ frame' = IdleFrame
    /\ UNCHANGED <<module, refs, orders, CONFIG, instance, processor>>

(* The program is one of the two files, each with its own OrderProcessor.  *)
(* Order o1 ranges over the countries and item lists, o2 is the order of   *)
(* the documented example.                                                 *)
Init ==
    /\ module \in {"sample_design_violations", "refactored_design"}
    /\ orders \in [Orders -> [status : {"new"}, email : {"a@shop.com", "b@shop.com"},
                              country : Countries, items : ItemLists]]
    /\ orders["o1"].email = "a@shop.com"
    /\ orders["o2"] = [status |-> "new", email |-> "b@shop.com", country |-> "CH",
                       items |-> SpecExampleItems]
    /\ CONFIG = [db_path |-> "orders.db", email_host |-> "smtp.example.com",
                 discount |-> InitialDiscount]
    /\ instance = NoInstance
    /\ refs = {}
    /\ processor = NoProcessor
    /\ analytics_logs = <<>>
    /\ frame = IdleFrame
    /\ world = <<>>
    /\ budget = MaxOps

Next ==
    \/ \E c \in Customers, p \in PaymentTypes : VNew(c, p)
    \/ \E o \in Orders : VBegin(o)
    \/ VCalcTotal
    \/ VApplyDiscounts
    \/ VChargePayment
    \/ VSaveToDb
    \/ VEmailCustomer
    \/ VPostAnalytics
    \/ VBackupCsv
    \/ VFinish
    \/ \E policy \in DiscountPolicies, rate \in PromoRates, gateway \in PaymentGateways :
         RNew(policy, rate, gateway)
    \/ \E o \in Orders : RBegin(o)
    \/ RStep
    \/ \E o \in Orders : Track(o)

Spec == Init /\ [][Next]_vars
(* ---------------- properties ---------------- *)
InCall == frame.design # None

Ended == InCall /\ frame.pc \in {"returned", "raised"}

Status(o) == orders[o].status

StepOrder == <<"discount", "charge", "save", "notify", "track", "backup">>

(* the steps with the analytics step named alike whether or not the post went through *)
StepNames(steps) == [i \in 1..Len(steps) |-> IF steps[i] = "track-failed" THEN "track" ELSE steps[i]]

IsPrefix(s, t) == Len(s) <= Len(t) /\ SubSeq(t, 1, Len(s)) = s

(* what this call appended to the outside world *)
CallEffects == SubSeq(world, frame.mark + 1, Len(world))

RECURSIVE ExpectedEffects(_, _, _)
ExpectedEffects(steps, o, total) ==
    IF steps = <<>> THEN <<>>
    ELSE LET step == steps[Len(steps)]
             before == ExpectedEffects(SubSeq(steps, 1, Len(steps) - 1), o, total)
         IN  IF step = "save" THEN Append(before, Effect("db", o, total))
             ELSE IF step = "notify" THEN Append(before, Effect("mail", o, total))
             ELSE IF step = "track" THEN Append(before, Effect("post", o, NoTotal))
             ELSE IF step = "backup" THEN Append(before, Effect("csv", o, NoTotal))
             ELSE before

(* the sum over the items of price times quantity, from the first item on *)
RECURSIVE Sigma(_)
Sigma(items) ==
    IF items = <<>> THEN 0
    ELSE items[1].price * (IF "quantity" \in DOMAIN items[1] THEN items[1].quantity ELSE 1)
         + Sigma(Tail(items))

C2_StepOrder ==
    InCall =>
        /\ IsPrefix(StepNames(frame.steps), StepOrder)
        /\ frame.pc = "returned" =>
              /\ StepNames(frame.steps) = StepOrder
              /\ CallEffects = ExpectedEffects(frame.steps, frame.order, frame.total)
        /\ (frame.steps # <<>> /\ frame.pc # "returned") => Status(frame.order) = "processing"

C2_Witness ==
    /\ frame.design = "v"
    /\ frame.pc = "returned"
    /\ Len(CallEffects) = 4

(* C4 as stated: in both designs the total before the discount is the sum *)
(* over the items of price times quantity.                                *)
C4_RawIsSum ==
    (InCall /\ frame.raw # NoTotal) => frame.raw = Sigma(orders[frame.order].items) * Scale

(* C4 amended: the refactored process computes the sum; the violating      *)
(* _calc_total computes the sum when it is at most 1000 and 1.39 times the *)
(* sum when it is above 1000.                                              *)
C4_RawIsSumOrTariffed ==
    (InCall /\ frame.raw # NoTotal) =>
        LET sum == Sigma(orders[frame.order].items)
        IN  IF frame.design = "v" /\ sum > 1000
            THEN frame.raw = sum * 139 * (Scale \div 100)
            ELSE frame.raw = sum * Scale

C4_Witness ==
    /\ frame.design = "v"
    /\ frame.raw # NoTotal
    /\ Sigma(orders[frame.order].items) > 1000
    /\ Len(orders[frame.order].items) = 2

(* C5: the amount charged is the discounted total (2% off the subtotal for *)
(* paypal, 2% on top for credit-card, the CONFIG discount off for promo),  *)
(* which differs from a positive subtotal; the rows saved and the mails    *)
(* sent carry that amount and process returns it.                          *)
C5_ChargeUsesDiscountedTotal ==
    (InCall /\ frame.charged # NoTotal) =>
        /\ frame.design = "v" =>
              /\ instance.payment_type = "paypal" => frame.charged = (frame.raw \div 100) * 98
              /\ instance.payment_type = "credit-card" =>
                    frame.charged = (frame.raw \div 100) * 102
              /\ instance.payment_type = "promo" =>
                    frame.charged = (frame.raw \div 100) * (100 - CONFIG.discount)
              /\ frame.raw > 0 => frame.charged # frame.raw
        /\ \A i \in 1..Len(CallEffects) :
              CallEffects[i].kind \in {"db", "mail"} => CallEffects[i].amount = frame.charged
        /\ frame.pc = "returned" => frame.result = frame.charged

C5_Witness ==
    /\ frame.design = "v"
    /\ frame.pc = "returned"
    /\ frame.charged > 0
    /\ \E i \in 1..Len(CallEffects) : CallEffects[i].kind = "mail"
(* C3: a call of the refactored process ends by returning the discount    *)
(* policy of the processor applied to the subtotal; for the items          *)
(* [{price 10, quantity 2}] that is 20 with NoDiscount, 19.6 with          *)
(* PaypalDiscount, 20.4 with CreditCardFee and 18 with PromoDiscount(0.1). *)
C3_ProcessReturnsPolicyTotal ==
    (frame.design = "r" /\ Ended) =>
        /\ frame.pc = "returned"
        /\ frame.result = PolicyApplyDiscounts(processor.discount_policy, processor.rate,
                                               Sigma(orders[frame.order].items) * Scale)
        /\ orders[frame.order].items = SpecExampleItems =>
              frame.result = (CASE processor.discount_policy = "NoDiscount" -> 20 * Scale
                                [] processor.discount_policy = "PaypalDiscount" -> 196 * (Scale \div 10)
                                [] processor.discount_policy = "CreditCardFee" -> 204 * (Scale \div 10)
                                [] processor.discount_policy = "PromoDiscount" -> 18 * Scale)

CollaboratorErrors == {"RuntimeError", "sqlite3.Error", "smtplib.SMTPException", "OSError"}

(* the place in StepOrder of the step that raises the error *)
FailedAt(error) ==
    CASE error = "RuntimeError" -> 2
      [] error = "sqlite3.Error" -> 3
      [] error = "smtplib.SMTPException" -> 4
      [] error = "OSError" -> 6

(* C6: a call that a failing charge, save, notify or backup ended has       *)
(* returned no total and left the order in status processing; the steps     *)
(* before the failing one are the ones taken, what they wrote outside is    *)
(* still there, and no later step has acted.                                *)
C6_FailurePropagates ==
    (InCall /\ frame.pc = "raised" /\ frame.error \in CollaboratorErrors) =>
        /\ Status(frame.order) = "processing"
        /\ frame.result = NoTotal
        /\ StepNames(frame.steps) = SubSeq(StepOrder, 1, FailedAt(frame.error) - 1)
        /\ CallEffects = ExpectedEffects(frame.steps, frame.order, frame.total)

C6_Witness ==
    /\ frame.design = "v"
    /\ frame.pc = "raised"
    /\ frame.error = "OSError"
    /\ Len(CallEffects) >= 2
    /\ Status(frame.order) = "processing"

(* C7: a call of process on an order with an unsupported country ends with *)
(* the validation error, without a total, with no step taken and nothing   *)
(* written outside, and with the order as it was at entry.                 *)
C7_UnsupportedCountryRejectedEagerly ==
    (Ended /\ orders[frame.order].country \notin SupportedCountries) =>
        /\ frame.error = "ValueError"
        /\ frame.result = NoTotal
        /\ frame.steps = <<>>
        /\ CallEffects = <<>>
        /\ Status(frame.order) = frame.status0

(* a step of HttpAnalytics.track called on the analytics object *)
IsTrackCall ==
    /\ module = "refactored_design"
    /\ budget' = budget - 1
    /\ frame'.design = None

(* C8: the analytics step never ends the call: process goes on to the      *)
(* backup, and the log gets the "posted" entry on every call, after the    *)
(* failure entry when the post failed (nothing was posted outside); the    *)
(* same holds of the log of HttpAnalytics on every call of track.          *)
C8_AnalyticsFailureSwallowed ==
    [][ /\ InV("track") =>
             /\ frame'.pc = "backup"
             /\ frame'.error = None
             /\ instance'.logs = instance.logs \o
                   (IF world' = world
                    THEN <<LogEntry("Failed to post analytics", NoTotal),
                           LogEntry("Analytics posted", NoTotal)>>
                    ELSE <<LogEntry("Analytics posted", NoTotal)>>)
        /\ IsTrackCall =>
             \E o \in Orders :
                analytics_logs' = analytics_logs \o
                   (IF world' = world
                    THEN <<[msg |-> "Failed to post analytics for order", order |-> o],
                           [msg |-> "Analytics posted for order", order |-> o]>>
                    ELSE <<[msg |-> "Analytics posted for order", order |-> o]>>)
      ]_vars

C8_Witness ==
    /\ frame.design = "v"
    /\ frame.pc = "returned"
    /\ Status(frame.order) = "done"
    /\ \E i \in 1..Len(frame.steps) : frame.steps[i] = "track-failed"
    /\ \E i \in 1..(Len(instance.logs) - 1) :
          /\ instance.logs[i].msg = "Failed to post analytics"
          /\ instance.logs[i + 1].msg = "Analytics posted"

Rank(status) == CASE status = "new" -> 0 [] status = "processing" -> 1 [] status = "done" -> 2

(* C9 as stated: over any sequence of calls the status of an order only *)
(* moves forward along new, processing, done.                           *)
C9_StatusOnlyForward ==
    [][\A o \in Orders : Rank(orders'[o].status) >= Rank(orders[o].status)]_vars

(* C9 amended: the status of an order changes only at the entry of a call   *)
(* of process on it, to processing whatever it was (done included), and at  *)
(* the return of that call, from processing to done; it never becomes new   *)
(* again.                                                                   *)
C9_StatusForwardWithinCall ==
    [][\A o \in Orders :
          orders'[o].status # orders[o].status =>
             \/ /\ orders'[o].status = "processing"
                /\ Idle
                /\ frame'.order = o
                /\ frame'.status0 = orders[o].status
             \/ /\ orders[o].status = "processing"
                /\ orders'[o].status = "done"
                /\ frame.order = o
                /\ frame'.pc = "returned"
      ]_vars

C9_Witness ==
    /\ InCall
    /\ frame.status0 = "done"
    /\ Status(frame.order) = "processing"

ROutcome(order, proc) ==
    IF \E i \in 1..Len(RCalls) : RCalls[i].name \notin Defines(proc[RCalls[i].attr])
    THEN [error |-> "AttributeError", result |-> NoTotal]
    ELSE [error |-> None,
          result |-> PolicyApplyDiscounts(proc.discount_policy, proc.rate,
                                          Sigma(order.items) * Scale)]

C11_CalledOperationsDefined ==
    (frame.design = "r" /\ Ended) =>
        /\ frame.error # "AttributeError"
        /\ \A i \in 1..Len(RCalls) : RCalls[i].name \in Defines(processor[RCalls[i].attr])

OrderFields == {"status", "email", "country", "items"}

(* C12: no step changes the email, the country or the items of an order, *)
(* or gives an order a field it did not have (such as a total); the      *)
(* orders stay the same orders.                                          *)
C12_OnlyStatusChanges ==
    [][ /\ DOMAIN orders' = DOMAIN orders
        /\ \A o \in Orders :
              /\ DOMAIN orders'[o] = OrderFields
              /\ orders'[o].email = orders[o].email
              /\ orders'[o].country = orders[o].country
              /\ orders'[o].items = orders[o].items
      ]_vars

C12_Witness ==
    /\ frame.design = "v"
    /\ frame.pc = "returned"
    /\ frame.result > 0
    /\ Status(frame.order) = "done"
    /\ DOMAIN orders[frame.order] = OrderFields
(* a step of the violating OrderProcessor(...) construction *)
IsVNew ==
    /\ module = "sample_design_violations"
    /\ budget' = budget - 1
    /\ frame' = IdleFrame

RECURSIVE CountMsg(_, _)
CountMsg(logs, msg) ==
    IF logs = <<>> THEN 0
    ELSE (IF logs[1].msg = msg THEN 1 ELSE 0) + CountMsg(Tail(logs), msg)

(* the calls of process that have run to their return since the last   *)
(* construction, told by the backup entries of _logs (the call at its  *)
(* last statement has written its entry and has not returned yet)      *)
CompletedSinceNew ==
    CountMsg(instance.logs, "Backup CSV updated") - (IF InV("finish") THEN 1 ELSE 0)

(* C13: every construction returns the one object, so every reference held *)
(* is a reference to it; a construction leaves in it the customer id and   *)
(* payment type of that construction, _total_processed 0 and empty _logs,  *)
(* nothing of what it held before; and _total_processed is the number of   *)
(* calls of process completed since the last construction.                 *)
C13_SingletonReinitialised ==
    [][ /\ Cardinality(refs') <= 1
        /\ instance'.made => refs' = {instance'.id}
        /\ instance.made => instance'.id = instance.id
        /\ IsVNew =>
              \E c \in Customers, p \in PaymentTypes :
                 instance' = [made |-> TRUE, id |-> instance'.id, customer_id |-> c,
                              payment_type |-> p, total_processed |-> 0, logs |-> <<>>]
        /\ instance'.made => instance'.total_processed = CompletedSinceNew'
      ]_vars

C13_Witness ==
    /\ instance.made
    /\ instance.customer_id = "c2"
    /\ instance.total_processed = 0
    /\ instance.logs = <<>>
    /\ refs = {instance.id}
    /\ \E i \in 1..Len(world) : world[i].kind = "csv"
(* A history of constructions is the sequence of their payment types.   *)
(* The calls of process between them change neither CONFIG nor the      *)
(* payment type, so they are left out of it.                            *)
Constructions == SeqsUpTo(PaymentTypes, MaxOps) \ {<<>>}

RECURSIVE DiscountAfter(_)
DiscountAfter(h) ==
    IF h = <<>> THEN InitialDiscount
    ELSE DiscountAfterNew(DiscountAfter(SubSeq(h, 1, Len(h) - 1)), h[Len(h)])

(* the total process computes for the items after the constructions of h *)
TotalAfter(h, items) == ApplyDiscounts(h[Len(h)], DiscountAfter(h), CalcTotal(items))

InsertPromo(h, k) == SubSeq(h, 1, k) \o <<"promo">> \o SubSeq(h, k + 1, Len(h))

KnownPaymentTypes == {"paypal", "promo", "credit-card"}

====
